---- MODULE Spec2Model ----
(***************************************************************************)
(* Session protocol engine of the Vosk ASR WebSocket server                *)
(* (src/vosk_server.py): the per-connection handler handle_connection, the *)
(* per-connection keepalive_task, the process-wide client_registry and the *)
(* recognizer instances they share.  asyncio runs one task at a time and   *)
(* switches tasks only at an await, so an action below is a stretch of one *)
(* task's code that no other task can interrupt.  An await of a send ends  *)
(* such a stretch only where the code after it reads shared state; where   *)
(* the task just goes on to its next wait (the next frame, the next sleep, *)
(* its end) the send and what follows are one action.                      *)
(***************************************************************************)
EXTENDS Integers, Sequences, FiniteSets, TLC

\* ---------------------------------------------------------------- bounds
MaxSessions == 3      \* connections accepted over the run
MaxIds      == 1      \* distinct peer identities ("ip:port")
MaxRecs     == 4      \* recognizer instances constructed over the run
MaxFrames   == 2      \* inbound frames processed over the run
TimeStep    == 30     \* seconds the clock moves in one step
ConnWeight  == 2      \* what one accepted connection counts for in the load of a run
MaxLoad     == 6      \* load of a run: ConnWeight per connection, one per frame

\* ------------------------------------------------------ program constants
KEEPALIVE_INTERVAL == 30
CLIENT_TIMEOUT     == 90

Sessions == 1..MaxSessions
Ids      == 1..MaxIds
RecIds   == 1..MaxRecs

NoId    == 0          \* handler not started: client_id not yet computed
Unbound == 0          \* the local name `recognizer` is unbound / a dict key is absent
NoTask  == 0          \* 'keepalive_task': None

\* idle times above the timeout are all alike for `idle_time > CLIENT_TIMEOUT`
IdleCap == CLIENT_TIMEOUT + 1

Min(a, b) == IF a < b THEN a ELSE b

\* ---------------------------------------------------------------- frames
\* A binary frame is a chunk of PCM audio: silence or speech.
AudioFrames == { [kind |-> "bytes", pcm |-> p] : p \in {"silence", "speech"} }

\* A text frame, by what json.loads makes of it: a parse failure, a value that
\* is no dict (a number, a list, null), or a dict with the keys the handler reads.
Dict(a, t, e, w) == [kind |-> "str", json |-> "dict", action |-> a, type |-> t,
                     eof |-> e, words |-> w]
TextFrames ==
    { [kind |-> "str", json |-> "invalid", action |-> "", type |-> "", eof |-> 0, words |-> <<>>],
      [kind |-> "str", json |-> "scalar",  action |-> "", type |-> "", eof |-> 0, words |-> <<>>],
      Dict("reset", "", 0, <<>>),
      Dict("ping", "", 0, <<>>),
      Dict("", "eof", 0, <<>>),
      Dict("", "", 1, <<>>),
      Dict("update_vocabulary", "", 0, <<"kubernetes">>),
      Dict("update_vocabulary", "", 0, <<>>),
      Dict("start", "", 0, <<>>) }

NoFrame == [kind |-> "none"]

\* ---------------------------------------------------------------- events
\* An outbound event as the peer of session `to` sees it.  `info` is the
\* error_type of an error, the message of a status, the source of a final.
Event(to, type, info, text) == [to |-> to, type |-> type, info |-> info, text |-> text]

VARIABLES
    pc,                 \* handle_connection of each connection: where it is suspended
    client_id,          \* its local client_id
    recognizer,         \* its local recognizer (a RecId) or Unbound
    open,               \* whether its transport is still open
    client_registry,    \* self.client_registry: client_id -> entry
    active_connections, \* self.active_connections
    custom_vocabulary,  \* self.custom_vocabulary
    recs,               \* the recognizer instances: fed audio and grammar
    nextRec,            \* the next instance create_recognizer constructs
    mon,                \* keepalive_task of each connection: where it is suspended
    slept,              \* how long it has been in asyncio.sleep
    sent,               \* the events written to transports by the last step
    last,               \* the inbound frame handled by the last step, by whom, and
                        \* whether the engine call made for it raised
    nFrames,            \* frames processed so far
    nAudio,             \* per session: audio frames fed to AcceptWaveform
    nFinal,             \* per session: final events emitted
    nTimeout            \* per session: timeout error events emitted

vars == << pc, client_id, recognizer, open, client_registry, active_connections,
           custom_vocabulary, recs, nextRec, mon, slept, sent, last, nFrames,
           nAudio, nFinal, nTimeout >>


\* ------------------------------------------------------------- recognizers
\* What the engine makes of one chunk: the words it adds to the utterance.
Decode(pcm) == IF pcm = "speech" THEN <<"w">> ELSE <<>>

\* An instance nobody has fed: KaldiRecognizer(self.model, SAMPLE_RATE).
Blank == [buf |-> <<>>, grammar |-> <<>>]

\* create_recognizer: the instance it returns.  The vocabulary is applied if
\* one is loaded; a SetGrammar failure is logged and the instance is used as is.
create_recognizer(vocab, grammar_ok) ==
    [buf |-> <<>>, grammar |-> IF vocab # <<>> /\ grammar_ok THEN vocab ELSE <<>>]

\* What the engine does on its own account while one step runs: whether
\* AcceptWaveform reports an utterance boundary, whether the engine call of the
\* step raises, whether SetGrammar inside create_recognizer succeeds.
EngineChoices == [endpoint : BOOLEAN, raises : BOOLEAN, grammar_ok : BOOLEAN]

\* The engine choices a frame's handling consults; the others are held fixed.
Consults(f, vocab, eng) ==
    IF f.kind = "bytes"
    THEN eng.grammar_ok
    ELSE IF f.json # "dict" \/ f.action = "ping"
    THEN ~eng.endpoint /\ ~eng.raises /\ eng.grammar_ok
    ELSE IF f.action = "reset"
    THEN ~eng.endpoint /\ (eng.grammar_ok \/ (vocab # <<>> /\ ~eng.raises))
    ELSE IF f.type = "eof" \/ f.eof = 1 \/ (f.action = "update_vocabulary" /\ f.words # <<>>)
    THEN ~eng.endpoint /\ eng.grammar_ok
    ELSE ~eng.endpoint /\ ~eng.raises /\ eng.grammar_ok

\* Python frees an instance when no name and no dict refers to it any more.
Referenced(r, locals, reg) ==
    \/ \E s \in Sessions : locals[s] = r
    \/ \E i \in DOMAIN reg : reg[i].recognizer = r

Collect(rs, locals, reg) ==
    [r \in RecIds |-> IF Referenced(r, locals, reg) THEN rs[r] ELSE Blank]

\* ---------------------------------------------------------------- registry
\* Put that keeps the entry it finds: the update of the later writer is lost.
PutIfAbsent(reg, id, entry) == IF id \in DOMAIN reg THEN reg ELSE reg @@ (id :> entry)

Put(reg, id, entry) == [i \in DOMAIN reg \cup {id} |-> IF i = id THEN entry ELSE reg[i]]
Remove(reg, id)     == [i \in DOMAIN reg \ {id} |-> reg[i]]

\* task.cancel(): the task ends at the await it is suspended in.
Cancel(m, t) == IF t = NoTask THEN m ELSE [m EXCEPT ![t] = "done"]

\* Only a task inside asyncio.sleep has a sleep under way.
Asleep(m, sl) == [t \in Sessions |-> IF m[t] = "sleep" THEN sl[t] ELSE 0]

\* The duplicate check of handle_connection: the entry found under the new
\* connection's client_id loses its 'recognizer' key (its monitor is cancelled
\* by Cancel, in Accept).
StripOld(reg, id) ==
    IF id \in DOMAIN reg
    THEN [reg EXCEPT ![id].recognizer = Unbound]
    ELSE reg

\* The entry handle_connection installs, once the monitor task is stored in it.
\* last_activity is kept as the time elapsed since it was set.
NewEntry(s, r) == [recognizer |-> r, idle |-> 0, keepalive_task |-> s]

\* 'last_activity' = time.time(), under the key client_id, if the key is there.
Touch(reg, id) ==
    IF id \in DOMAIN reg THEN [reg EXCEPT ![id].idle = 0] ELSE reg

TypeOK ==
    /\ pc \in [Sessions -> {"new", "loop", "done"}]
    /\ client_id \in [Sessions -> Ids \cup {NoId}]
    /\ recognizer \in [Sessions -> RecIds \cup {Unbound}]
    /\ open \in [Sessions -> BOOLEAN]
    /\ DOMAIN client_registry \subseteq Ids
    /\ \A i \in DOMAIN client_registry :
          /\ client_registry[i].recognizer \in RecIds \cup {Unbound}
          /\ client_registry[i].idle \in 0..IdleCap
          /\ client_registry[i].keepalive_task \in Sessions
    /\ active_connections \in 0..MaxSessions
    /\ nextRec \in 1..(MaxRecs + 1)
    /\ mon \in [Sessions -> {"none", "sleep", "done"}]
    /\ slept \in [Sessions -> 0..KEEPALIVE_INTERVAL]
    /\ nFrames \in 0..MaxFrames

Init ==
    /\ pc = [s \in Sessions |-> "new"]
    /\ client_id = [s \in Sessions |-> NoId]
    /\ recognizer = [s \in Sessions |-> Unbound]
    /\ open = [s \in Sessions |-> FALSE]
    /\ client_registry = << >>
    /\ active_connections = 0
    /\ custom_vocabulary \in { <<>>, <<"leetcode">> }
    /\ recs = [r \in RecIds |-> Blank]
    /\ nextRec = 1
    /\ mon = [s \in Sessions |-> "none"]
    /\ slept = [s \in Sessions |-> 0]
    /\ sent = <<>>
    /\ last = [sess |-> 0, frame |-> NoFrame, raised |-> FALSE]
    /\ nFrames = 0
    /\ nAudio = [s \in Sessions |-> 0]
    /\ nFinal = [s \in Sessions |-> 0]
    /\ nTimeout = [s \in Sessions |-> 0]


\* ------------------------------------------------------- frame handling
\* What one frame's handling leaves behind: the handler's local recognizer,
\* the instances, the registry, the instance counter, and the events sent.
Outcome(r, rs, reg, nxt, ev) == [rec |-> r, recs |-> rs, reg |-> reg, next |-> nxt, ev |-> ev]

\* send_error(websocket, message, error_type)
send_error(s, error_type) == Event(s, "error", error_type, <<>>)

\* OnBytes without the tests for an empty text.
OnBytesNoEmptyCheck(s, f, eng, st) ==
    IF st.rec = Unbound \/ eng.raises
    THEN Outcome(st.rec, st.recs, st.reg, st.next, << send_error(s, "audio_processing") >>)
    ELSE LET heard == st.recs[st.rec].buf \o Decode(f.pcm) IN
         IF eng.endpoint
         THEN Outcome(st.rec, [st.recs EXCEPT ![st.rec].buf = <<>>], st.reg, st.next,
                      << Event(s, "final", "", heard) >>)
         ELSE Outcome(st.rec, [st.recs EXCEPT ![st.rec].buf = heard], st.reg, st.next,
                      << Event(s, "partial", "", heard) >>)

\* A binary frame: AcceptWaveform, then Result or PartialResult; an event only
\* for a non-empty text; any exception becomes an audio_processing error.
OnBytes(s, f, eng, st) ==
    IF st.rec = Unbound \/ eng.raises
    THEN Outcome(st.rec, st.recs, st.reg, st.next, << send_error(s, "audio_processing") >>)
    ELSE LET heard == st.recs[st.rec].buf \o Decode(f.pcm) IN
         IF eng.endpoint
         THEN \* recognizer.Result(): the utterance is finished and cleared
              Outcome(st.rec, [st.recs EXCEPT ![st.rec].buf = <<>>], st.reg, st.next,
                      IF heard # <<>> THEN << Event(s, "final", "", heard) >> ELSE <<>>)
         ELSE \* recognizer.PartialResult()
              Outcome(st.rec, [st.recs EXCEPT ![st.rec].buf = heard], st.reg, st.next,
                      IF heard # <<>> THEN << Event(s, "partial", "", heard) >> ELSE <<>>)

\* OnReset that constructs nothing and takes over the instance the registry
\* holds under client_id.
OnResetAdoptsEntry(s, id, vocab, eng, st) ==
    IF st.rec # Unbound /\ id \in DOMAIN st.reg /\ st.reg[id].recognizer # Unbound
    THEN Outcome(st.reg[id].recognizer, st.recs, st.reg, st.next,
                 << Event(s, "status", "recognizer_reset", <<>>) >>)
    ELSE Outcome(Unbound, st.recs, st.reg, st.next, << send_error(s, "command_processing") >>)

\* {action: "reset"}: del recognizer, create_recognizer(), store it under
\* client_id in the registry, acknowledge.  Each statement can raise, and what
\* the statements before it did stays done.
OnReset(s, id, vocab, eng, st) ==
    IF st.rec = Unbound
    THEN \* del recognizer: UnboundLocalError
         Outcome(Unbound, st.recs, st.reg, st.next, << send_error(s, "command_processing") >>)
    ELSE IF eng.raises
    THEN \* KaldiRecognizer(...) raises: the local name stays deleted
         Outcome(Unbound, st.recs, st.reg, st.next, << send_error(s, "command_processing") >>)
    ELSE LET fresh == st.next
             rs    == [st.recs EXCEPT ![fresh] = create_recognizer(vocab, eng.grammar_ok)]
         IN  IF id \in DOMAIN st.reg
             THEN Outcome(fresh, rs, [st.reg EXCEPT ![id].recognizer = fresh], fresh + 1,
                          << Event(s, "status", "recognizer_reset", <<>>) >>)
             ELSE \* self.client_registry[client_id]: KeyError
                  Outcome(fresh, rs, st.reg, fresh + 1,
                          << send_error(s, "command_processing") >>)

\* OnPing answering on the transport of the connection the registry holds,
\* not on the handler's own.
OnPingToRegistered(s, st) ==
    LET to == IF DOMAIN st.reg = {} THEN s
              ELSE st.reg[CHOOSE i \in DOMAIN st.reg : TRUE].keepalive_task
    IN  Outcome(st.rec, st.recs, st.reg, st.next, << Event(to, "pong", "", <<>>) >>)

\* {action: "ping"}
OnPing(s, st) ==
    Outcome(st.rec, st.recs, st.reg, st.next, << Event(s, "pong", "", <<>>) >>)

\* {type: "eof"} or {eof: 1}: FinalResult() finishes and clears the utterance;
\* a final event only for a non-empty text; its own try/except.
OnEof(s, eng, st) ==
    IF st.rec = Unbound \/ eng.raises
    THEN Outcome(st.rec, st.recs, st.reg, st.next, << send_error(s, "eof_processing") >>)
    ELSE LET text == st.recs[st.rec].buf IN
         Outcome(st.rec, [st.recs EXCEPT ![st.rec].buf = <<>>], st.reg, st.next,
                 IF text # <<>> THEN << Event(s, "final", "eof_signal", text) >> ELSE <<>>)

\* {action: "update_vocabulary", words: [...]}: SetGrammar on the live
\* instance when words is non-empty, nothing at all otherwise.
OnUpdateVocabulary(s, f, eng, st) ==
    IF f.words = <<>>
    THEN Outcome(st.rec, st.recs, st.reg, st.next, <<>>)
    ELSE IF st.rec = Unbound \/ eng.raises
    THEN Outcome(st.rec, st.recs, st.reg, st.next, << send_error(s, "command_processing") >>)
    ELSE Outcome(st.rec, [st.recs EXCEPT ![st.rec].grammar = f.words], st.reg, st.next,
                 << Event(s, "status", "vocabulary_updated", <<>>) >>)

\* Dispatch with a ping branch that looks the session up in the registry
\* first, as the reset branch does: KeyError when the entry is gone.
DispatchPingReadsRegistry(s, id, vocab, f, eng, st) ==
    IF f.action = "reset" THEN OnReset(s, id, vocab, eng, st)
    ELSE IF f.action = "ping"
         THEN IF id \in DOMAIN st.reg
              THEN OnPing(s, st)
              ELSE Outcome(st.rec, st.recs, st.reg, st.next,
                           << send_error(s, "command_processing") >>)
    ELSE IF f.type = "eof" \/ f.eof = 1 THEN OnEof(s, eng, st)
    ELSE IF f.action = "update_vocabulary" THEN OnUpdateVocabulary(s, f, eng, st)
    ELSE Outcome(st.rec, st.recs, st.reg, st.next, <<>>)

\* The if/elif chain over the parsed command; a dict matching no branch is
\* passed over without an event.
Dispatch(s, id, vocab, f, eng, st) ==
    IF f.action = "reset" THEN OnReset(s, id, vocab, eng, st)
    ELSE IF f.action = "ping" THEN OnPing(s, st)
    ELSE IF f.type = "eof" \/ f.eof = 1 THEN OnEof(s, eng, st)
    ELSE IF f.action = "update_vocabulary" THEN OnUpdateVocabulary(s, f, eng, st)
    ELSE Outcome(st.rec, st.recs, st.reg, st.next, <<>>)

\* OnText without the JSONDecodeError clause: the parse failure falls to the
\* general clause.
OnTextNoDecodeClause(s, id, vocab, f, eng, st) ==
    IF f.json # "dict"
    THEN Outcome(st.rec, st.recs, st.reg, st.next, << send_error(s, "command_processing") >>)
    ELSE Dispatch(s, id, vocab, f, eng, st)

\* A text frame: json.loads, then the chain; JSONDecodeError becomes an
\* invalid_json error, cmd.get on a value that is no dict (AttributeError) a
\* command_processing error.
OnText(s, id, vocab, f, eng, st) ==
    IF f.json = "invalid"
    THEN Outcome(st.rec, st.recs, st.reg, st.next, << send_error(s, "invalid_json") >>)
    ELSE IF f.json # "dict"
    THEN Outcome(st.rec, st.recs, st.reg, st.next, << send_error(s, "command_processing") >>)
    ELSE Dispatch(s, id, vocab, f, eng, st)

\* One iteration of `async for message in websocket`.
OnMessage(s, id, vocab, f, eng, st) ==
    LET touched == [st EXCEPT !.reg = Touch(st.reg, id)] IN
    IF f.kind = "bytes"
    THEN OnBytes(s, f, eng, touched)
    ELSE OnText(s, id, vocab, f, eng, touched)

Count(ev, type) == Cardinality({ i \in DOMAIN ev : ev[i].type = type })


\* ------------------------------------------------------------ keepalive
\* keepalive_task without the break after the timeout error: the pass goes
\* on to the keepalive send and the loop continues.
keepalive_task_NoBreak(s, id, reg, isOpen) ==
    IF id \notin DOMAIN reg
    THEN [to |-> "done", ev |-> <<>>]
    ELSE IF isOpen
         THEN [to |-> "sleep",
               ev |-> (IF reg[id].idle > CLIENT_TIMEOUT
                       THEN << send_error(s, "timeout") >> ELSE <<>>)
                      \o << Event(s, "keepalive", "", <<>>) >>]
         ELSE [to |-> "done", ev |-> <<>>]

\* keepalive_task that takes no notice of a closed transport: a failed send
\* is swallowed and the loop goes on.
keepalive_task_IgnoresClosed(s, id, reg, isOpen) ==
    IF id \notin DOMAIN reg
    THEN [to |-> "done", ev |-> <<>>]
    ELSE IF isOpen /\ reg[id].idle > CLIENT_TIMEOUT
    THEN [to |-> "done", ev |-> << send_error(s, "timeout") >>]
    ELSE [to |-> "sleep", ev |-> IF isOpen THEN << Event(s, "keepalive", "", <<>>) >> ELSE <<>>]

\* One pass of keepalive_task's loop after asyncio.sleep returns: where the
\* task goes next and what it writes to its own transport.  A send on a
\* closed transport raises ConnectionClosed: send_error swallows it, the
\* keepalive send ends the loop.  After the timeout error the loop breaks.
keepalive_task(s, id, reg, isOpen) ==
    IF id \notin DOMAIN reg
    THEN [to |-> "done", ev |-> <<>>]
    ELSE IF reg[id].idle > CLIENT_TIMEOUT
    THEN [to |-> "done", ev |-> IF isOpen THEN << send_error(s, "timeout") >> ELSE <<>>]
    ELSE IF isOpen
         THEN [to |-> "sleep", ev |-> << Event(s, "keepalive", "", <<>>) >>]
         ELSE [to |-> "done", ev |-> <<>>]

\* ---------------------------------------------------------------- actions
NoLast == [sess |-> 0, frame |-> NoFrame, raised |-> FALSE]

\* The inputs the run has taken so far, weighed against MaxLoad.
Load == ConnWeight * Cardinality({ t \in Sessions : pc[t] # "new" }) + nFrames

\* handle_connection from its first line into the message loop.  `alive`:
\* whether the transport is still open for the `connected` send; if not, the
\* send raises ConnectionClosed before the try is entered and the handler
\* ends there.  eng.raises: KaldiRecognizer(...) raises inside
\* create_recognizer, and the handler ends there.
Accept(s, id, alive, eng) ==
    /\ pc[s] = "new"
    /\ Load + ConnWeight <= MaxLoad
    /\ \A t \in Sessions : t < s => pc[t] # "new"
    /\ \A j \in Ids : j < id => \E t \in Sessions : client_id[t] = j
    /\ ~eng.endpoint
    /\ eng.raises \/ custom_vocabulary = <<>> => eng.grammar_ok
    /\ eng.raises => alive
    /\ ~eng.raises => nextRec <= MaxRecs
    /\ LET dup  == id \in DOMAIN client_registry
           m1   == IF dup THEN Cancel(mon, client_registry[id].keepalive_task) ELSE mon
           reg1 == StripOld(client_registry, id)
           reg2 == Put(reg1, id, NewEntry(s, nextRec))
           rs2  == [recs EXCEPT ![nextRec] = create_recognizer(custom_vocabulary, eng.grammar_ok)]
       IN  /\ client_id' = [client_id EXCEPT ![s] = id]
           /\ active_connections' = active_connections + 1
           /\ IF eng.raises
              THEN /\ pc' = [pc EXCEPT ![s] = "done"]
                   /\ open' = open
                   /\ recognizer' = recognizer
                   /\ client_registry' = reg1
                   /\ mon' = m1
                   /\ recs' = Collect(recs, recognizer, reg1)
                   /\ nextRec' = nextRec
                   /\ sent' = <<>>
              ELSE /\ client_registry' = reg2
                   /\ mon' = [m1 EXCEPT ![s] = "sleep"]
                   /\ nextRec' = nextRec + 1
                   /\ IF alive
                      THEN /\ pc' = [pc EXCEPT ![s] = "loop"]
                           /\ open' = [open EXCEPT ![s] = TRUE]
                           /\ recognizer' = [recognizer EXCEPT ![s] = nextRec]
                           /\ recs' = Collect(rs2, recognizer', reg2)
                           /\ sent' = << Event(s, "connected", "", <<>>) >>
                      ELSE /\ pc' = [pc EXCEPT ![s] = "done"]
                           /\ open' = open
                           /\ recognizer' = recognizer
                           /\ recs' = Collect(rs2, recognizer, reg2)
                           /\ sent' = <<>>
    /\ slept' = Asleep(mon', [slept EXCEPT ![s] = 0])
    /\ last' = NoLast
    /\ UNCHANGED << custom_vocabulary, nFrames, nAudio, nFinal, nTimeout >>

\* The peer (or the network) closes the transport of a connection.
PeerClose(s) ==
    /\ pc[s] = "loop"
    /\ open[s]
    /\ open' = [open EXCEPT ![s] = FALSE]
    /\ sent' = <<>>
    /\ last' = NoLast
    /\ UNCHANGED << pc, client_id, recognizer, client_registry, active_connections,
                    custom_vocabulary, recs, nextRec, mon, slept, nFrames, nAudio,
                    nFinal, nTimeout >>

\* One inbound frame, from the refresh of last_activity to the send that
\* ends its handling.
Frame(s, f, eng) ==
    /\ pc[s] = "loop"
    /\ open[s]
    /\ nFrames < MaxFrames
    /\ Load + 1 <= MaxLoad
    /\ Consults(f, custom_vocabulary, eng)
    /\ f.kind = "str" /\ f.action = "reset" => nextRec <= MaxRecs
    /\ LET st  == [rec |-> recognizer[s], recs |-> recs, reg |-> client_registry,
                   next |-> nextRec]
           out == OnMessage(s, client_id[s], custom_vocabulary, f, eng, st)
       IN  /\ recognizer' = [recognizer EXCEPT ![s] = out.rec]
           /\ client_registry' = out.reg
           /\ recs' = Collect(out.recs, recognizer', out.reg)
           /\ nextRec' = out.next
           /\ sent' = out.ev
           /\ nFinal' = [nFinal EXCEPT ![s] = @ + Count(out.ev, "final")]
    /\ last' = [sess |-> s, frame |-> f, raised |-> eng.raises /\ recognizer[s] # Unbound]
    /\ nFrames' = nFrames + 1
    /\ nAudio' = [nAudio EXCEPT ![s] = IF f.kind = "bytes" THEN @ + 1 ELSE @]
    /\ UNCHANGED << pc, client_id, open, active_connections, custom_vocabulary,
                    mon, slept, nTimeout >>

\* The finally block of handle_connection, and the end of the handler: its
\* local names go away.
Finally(s) ==
    LET id     == client_id[s]
        found  == id \in DOMAIN client_registry
        reg    == IF found THEN Remove(client_registry, id) ELSE client_registry
        locals == [recognizer EXCEPT ![s] = Unbound]
    IN  /\ client_registry' = reg
        /\ mon' = IF found THEN Cancel(mon, client_registry[id].keepalive_task) ELSE mon
        /\ slept' = Asleep(mon', slept)
        /\ recognizer' = locals
        /\ recs' = Collect(recs, locals, reg)
        /\ active_connections' = active_connections - 1
        /\ pc' = [pc EXCEPT ![s] = "done"]

\* The message loop ends because the transport is closed: the iteration
\* stops, or raises ConnectionClosed, and the finally block runs.
LoopExit(s) ==
    /\ pc[s] = "loop"
    /\ ~open[s]
    /\ Finally(s)
    /\ sent' = <<>>
    /\ last' = NoLast
    /\ UNCHANGED << client_id, open, custom_vocabulary, nextRec, nFrames,
                    nAudio, nFinal, nTimeout >>

\* The message loop raises another exception: the handler sends a
\* connection_error event (send_error swallows a failed send) and the finally
\* block runs; the server then closes the connection.
ConnError(s) ==
    /\ pc[s] = "loop"
    /\ Finally(s)
    /\ open' = [open EXCEPT ![s] = FALSE]
    /\ sent' = IF open[s] THEN << send_error(s, "connection_error") >> ELSE <<>>
    /\ last' = NoLast
    /\ UNCHANGED << client_id, custom_vocabulary, nextRec, nFrames,
                    nAudio, nFinal, nTimeout >>

\* asyncio.sleep(KEEPALIVE_INTERVAL) returns and the monitor runs one pass of
\* its loop.
KeepaliveTick(s) ==
    /\ mon[s] = "sleep"
    /\ slept[s] >= KEEPALIVE_INTERVAL
    /\ LET step == keepalive_task(s, client_id[s], client_registry, open[s])
       IN  /\ mon' = [mon EXCEPT ![s] = step.to]
           /\ sent' = step.ev
           /\ nTimeout' = [nTimeout EXCEPT ![s] = @ + Count(step.ev, "error")]
    /\ slept' = [slept EXCEPT ![s] = 0]
    /\ last' = NoLast
    /\ UNCHANGED << pc, client_id, recognizer, open, client_registry, active_connections,
                    custom_vocabulary, recs, nextRec, nFrames, nAudio, nFinal >>

\* Time passes: every last_activity is TimeStep older, every sleeping monitor
\* TimeStep nearer to waking.  A timer that is due fires before more time passes.
Tick ==
    /\ \A s \in Sessions : mon[s] = "sleep" => slept[s] < KEEPALIVE_INTERVAL
    /\ client_registry' = [i \in DOMAIN client_registry |->
                              [client_registry[i] EXCEPT !.idle = Min(@ + TimeStep, IdleCap)]]
    /\ slept' = [s \in Sessions |->
                    IF mon[s] = "sleep" THEN Min(slept[s] + TimeStep, KEEPALIVE_INTERVAL)
                    ELSE slept[s]]
    /\ sent' = <<>>
    /\ last' = NoLast
    /\ UNCHANGED << pc, client_id, recognizer, open, active_connections,
                    custom_vocabulary, recs, nextRec, mon, nFrames, nAudio, nFinal,
                    nTimeout >>

Next ==
    \/ \E s \in Sessions, id \in Ids, alive \in BOOLEAN, eng \in EngineChoices :
          Accept(s, id, alive, eng)
    \/ \E s \in Sessions : PeerClose(s)
    \/ \E s \in Sessions, f \in AudioFrames \cup TextFrames, eng \in EngineChoices :
          Frame(s, f, eng)
    \/ \E s \in Sessions : LoopExit(s)
    \/ \E s \in Sessions : ConnError(s)
    \/ \E s \in Sessions : KeepaliveTick(s)
    \/ Tick

Spec == Init /\ [][Next]_vars

\* The event loop runs every task that is ready, and time passes; nothing
\* obliges a peer to connect, to send a frame or to close.
FairSpec ==
    /\ Spec
    /\ \A s \in Sessions : WF_vars(LoopExit(s)) /\ WF_vars(KeepaliveTick(s))
    /\ WF_vars(Tick)


\* ----------------------------------------------------------------- claims
Registered(s) == mon[s] # "none"
Ended(s)      == pc[s] = "done"
Owns(s)       == /\ client_id[s] \in DOMAIN client_registry
                 /\ client_registry[client_id[s]].keepalive_task = s
Latest(s)     == \A t \in Sessions : t > s => client_id[t] # client_id[s]
LastText      == last.sess # 0 /\ last.frame.kind = "str"
LastBytes     == last.sess # 0 /\ last.frame.kind = "bytes"
LastIs(a)     == LastText /\ last.frame.json = "dict" /\ last.frame.action = a

\* C1: when two connections with the same identity are registered one after
\* the other, then as long as the second is live (and no later one took the
\* identity) the registry holds the second session's entry, and the first
\* session's monitor has ended and it no longer has a recognizer to feed.
C1_DuplicateLeavesOneLiveEntry ==
    \A a, b \in Sessions :
        (a < b /\ client_id[a] = client_id[b] /\ Registered(a) /\ pc[b] = "loop" /\ Latest(b))
        => /\ Owns(b)
           /\ mon[a] = "done"
           /\ recognizer[a] = Unbound

\* C2: once the handler of a connection that registered has ended, whichever
\* way it ended, the registry holds no entry that connection installed (so
\* nothing holds its recognizer) and its keepalive monitor has ended.
C2_EndedHandlerLeavesNothing ==
    \A s \in Sessions :
        (Ended(s) /\ Registered(s)) => (~Owns(s) /\ mon[s] = "done")

\* What the server does of its own accord: timers fire, ready tasks run, time
\* passes.  Connecting, sending a frame and closing are the peer's.
ServerStep == Tick \/ \E t \in Sessions : LoopExit(t) \/ KeepaliveTick(t)

\* The program's own state, without the record of the last step's traffic.
progVars == << pc, client_id, recognizer, open, client_registry, active_connections,
               custom_vocabulary, recs, nextRec, mon, slept >>

\* C3: a session whose keepalive monitor has sent it the timeout error gets
\* closed (its loop ended, its entry removed) without the peer doing anything
\* more: while it is not closed, the server still has a step of its own to take.
C3_TimeoutLeadsToClosed ==
    \A s \in Sessions :
        nTimeout[s] > 0 => (Ended(s) /\ ~Owns(s)) \/ ENABLED <<ServerStep>>_progVars

\* C4: the peer of a session is sent at most one timeout error, and once it
\* has been sent the session's monitor has ended: no keepalive follows.
C4_AtMostOneTimeout ==
    \A s \in Sessions :
        /\ nTimeout[s] <= 1
        /\ nTimeout[s] = 1 =>
              /\ mon[s] = "done"
              /\ \A i \in DOMAIN sent : ~(sent[i].to = s /\ sent[i].type = "keepalive")

C4_Witness ==
    \E s \in Sessions : nTimeout[s] = 1 /\ pc[s] = "loop" /\ sent = <<>>

\* C5: the handling of a {action: "ping"} frame sends exactly one pong to
\* the session that received it, and nothing else.
C5_PingYieldsOnePong ==
    LastIs("ping") => sent = << Event(last.sess, "pong", "", <<>>) >>

C5_Witness ==
    /\ LastIs("ping")
    /\ client_id[last.sess] \notin DOMAIN client_registry
    /\ sent = << Event(last.sess, "pong", "", <<>>) >>

\* C6: the handling of a text frame that does not parse sends exactly one
\* invalid_json error and changes nothing of the session: it stays in its
\* loop with the same recognizer instance, and the registry is as before but
\* for last_activity.
C6_InvalidJsonChangesNothing ==
    [][ (LastText /\ last.frame.json = "invalid")'
        => /\ sent' = << send_error(last'.sess, "invalid_json") >>
           /\ pc' = pc /\ recognizer' = recognizer /\ recs' = recs /\ mon' = mon
           /\ DOMAIN client_registry' = DOMAIN client_registry
           /\ \A i \in DOMAIN client_registry :
                 client_registry'[i] =
                    [client_registry[i] EXCEPT !.idle = client_registry'[i].idle] ]_vars

C6_Witness ==
    /\ LastText /\ last.frame.json = "invalid"
    /\ pc[last.sess] = "loop" /\ recognizer[last.sess] # Unbound
    /\ sent = << send_error(last.sess, "invalid_json") >>

\* C7: a session never has more final events than audio frames; one audio
\* frame yields at most one event among final and partial; no final or
\* partial event carries an empty text, from audio or from end-of-utterance.
C7_FinalsBoundedNeverEmpty ==
    /\ \A s \in Sessions : nFinal[s] <= nAudio[s]
    /\ LastBytes => Count(sent, "final") + Count(sent, "partial") <= 1
    /\ \A i \in DOMAIN sent : sent[i].type \in {"final", "partial"} => sent[i].text # <<>>

C7_Witness ==
    /\ LastBytes
    /\ \E s \in Sessions : nAudio[s] = 2 /\ nFinal[s] = 1
    /\ Count(sent, "final") = 1

\* C8: the handling of a reset command leaves the session in its loop with
\* a newly constructed recognizer that holds no audio.
C8_ResetGivesFreshRecognizer ==
    LastIs("reset") =>
        /\ pc[last.sess] = "loop"
        /\ recognizer[last.sess] # Unbound
        /\ recognizer[last.sess] = nextRec - 1
        /\ recs[recognizer[last.sess]].buf = <<>>

\* The text-frame shapes the protocol names: reset, ping, end-of-utterance,
\* update_vocabulary with words.
Recognized(f) ==
    /\ f.json = "dict"
    /\ \/ f.action \in {"reset", "ping"}
       \/ f.type = "eof" \/ f.eof = 1
       \/ f.action = "update_vocabulary" /\ f.words # <<>>

\* C9: a text frame that is none of reset, ping, update_vocabulary with
\* words, end-of-utterance is answered with an error event.
C9_UnrecognizedYieldsError ==
    (LastText /\ ~Recognized(last.frame)) => Count(sent, "error") >= 1

\* C10: every entry of the registry has a keepalive task and a recognizer.
C10_EntriesComplete ==
    \A i \in DOMAIN client_registry :
        /\ client_registry[i].keepalive_task # NoTask
        /\ client_registry[i].recognizer # Unbound

\* C11: when the handling of a frame ends in an error event (an engine call
\* raised, a command could not be carried out), the peer gets that one event
\* and the session stays active: it is still in its loop, the registry has
\* the entries it had, and the session has a recognizer for the next audio.
C11_FrameFailureKeepsSessionActive ==
    [][ (last'.sess # 0 /\ Count(sent', "error") >= 1)
        => /\ Len(sent') = 1
           /\ pc'[last'.sess] = "loop"
           /\ DOMAIN client_registry' = DOMAIN client_registry
           /\ recognizer'[last'.sess] # Unbound ]_vars

\* The events the handling of a frame sends: results, acknowledgements and
\* the errors of the frame-handling clauses.
FrameEvent(e) ==
    \/ e.type \in {"final", "partial", "pong", "status"}
    \/ e.type = "error" /\ e.info \in {"audio_processing", "invalid_json",
                                       "command_processing", "eof_processing"}

\* C12: every event a frame triggers is sent, to the peer of the session that
\* processes the frame, within the handling of that frame, that is before any
\* later frame is processed: a session's events keep the order of its frames.
C12_EventsKeepFrameOrder ==
    [][ \A i \in DOMAIN sent' :
            FrameEvent(sent'[i]) => /\ last'.sess = sent'[i].to
                                    /\ nFrames' = nFrames + 1
                                    /\ Len(sent') = 1 ]_vars

C12_Witness ==
    /\ nFrames = 2 /\ last.sess # 0
    /\ Len(sent) = 1 /\ FrameEvent(sent[1]) /\ sent[1].to = last.sess
    /\ \E t \in Sessions : t # last.sess /\ pc[t] = "loop" /\ mon[t] = "sleep"

\* C13: the handling of a frame by a session refreshes the last_activity of
\* the entry that session installed (the one its own monitor reads), and
\* leaves the last_activity of every other session's entry as it was.
C13_FrameRefreshesOwnActivityOnly ==
    [][ last'.sess # 0
        => /\ client_id[last'.sess] \in DOMAIN client_registry'
           /\ client_registry'[client_id[last'.sess]].keepalive_task = last'.sess
           /\ client_registry'[client_id[last'.sess]].idle = 0
           /\ \A i \in DOMAIN client_registry :
                 client_registry[i].keepalive_task # last'.sess
                 => /\ i \in DOMAIN client_registry'
                    /\ client_registry'[i].idle = client_registry[i].idle ]_vars

\* C14: when a session's update_vocabulary with words has been acknowledged
\* and its next step is a reset that succeeds, the recognizer the reset
\* constructs carries the updated words as its vocabulary constraint.
C14_UpdatedVocabularySurvivesReset ==
    [][ ( /\ LastIs("update_vocabulary") /\ last.frame.words # <<>>
          /\ sent = << Event(last.sess, "status", "vocabulary_updated", <<>>) >>
          /\ LastIs("reset")' /\ last'.sess = last.sess
          /\ sent' = << Event(last.sess, "status", "recognizer_reset", <<>>) >> )
        => recs'[recognizer'[last.sess]].grammar = last.frame.words ]_vars

LastEof ==
    /\ LastText /\ last.frame.json = "dict"
    /\ last.frame.action \notin {"reset", "ping"}
    /\ last.frame.type = "eof" \/ last.frame.eof = 1

\* C15: an end-of-utterance frame, FinalResult not raising, leaves the
\* session with the recognizer it had and sends one final event tagged
\* eof_signal when audio fed since connect, reset or the last finalize gave a
\* text, and nothing at all, no final and no error, when there is none.
C15_EofFinalizesInPlace ==
    [][ (LastEof' /\ ~last'.raised)
        => LET s    == last'.sess
               r    == recognizer[s]
               text == IF r = Unbound THEN <<>> ELSE recs[r].buf
           IN  /\ recognizer'[s] = r
               /\ sent' = IF text # <<>>
                          THEN << Event(s, "final", "eof_signal", text) >>
                          ELSE <<>> ]_vars

\* The events a keepalive monitor sends.
MonitorEvent(e) == e.type = "keepalive" \/ (e.type = "error" /\ e.info = "timeout")

C17_OneDriverPerRecognizer ==
    /\ [](\A a, b \in Sessions :
             (a # b /\ recognizer[a] # Unbound) => recognizer[a] # recognizer[b])
    /\ [][ last'.sess # 0
           => \A r \in RecIds :
                 (recs'[r] # recs[r] /\ recs'[r] # Blank) => r = recognizer'[last'.sess] ]_vars

\* Two live sessions of one identity, each with its own instance, and the
\* superseded one has just been fed audio.
C17_Witness ==
    \E a, b \in Sessions :
        /\ a < b /\ client_id[a] = client_id[b] /\ pc[a] = "loop" /\ pc[b] = "loop"
        /\ recognizer[a] # Unbound /\ recognizer[b] # Unbound
        /\ LastBytes /\ last.sess = a /\ recs[recognizer[a]].buf # <<>>

C19_TeardownTouchesOwnOnly ==
    [][ \A s \in Sessions :
          (pc[s] = "loop" /\ pc'[s] = "done")
          => \A t \in Sessions \ {s} :
                pc[t] = "loop" => /\ Owns(t) => Owns(t)'
                                  /\ mon'[t] = mon[t] ]_vars

\* C20: the handling of a frame by a session leaves the recognizer of every
\* entry installed by another session that is in its loop as it was; and
\* after it, if the session
\* has a recognizer and its own entry holds one, the two are the same
\* instance.
C20_EntryHoldsOwnersRecognizer ==
    [][ last'.sess # 0
        => /\ \A i \in DOMAIN client_registry :
                 ( /\ client_registry[i].keepalive_task # last'.sess
                   /\ pc[client_registry[i].keepalive_task] = "loop" )
                 => /\ i \in DOMAIN client_registry'
                    /\ client_registry'[i].recognizer = client_registry[i].recognizer
           /\ ( /\ client_id[last'.sess] \in DOMAIN client_registry'
                /\ client_registry'[client_id[last'.sess]].keepalive_task = last'.sess
                /\ client_registry'[client_id[last'.sess]].recognizer # Unbound
                /\ recognizer'[last'.sess] # Unbound )
              => client_registry'[client_id[last'.sess]].recognizer
                    = recognizer'[last'.sess] ]_vars

====
